---- MODULE Spec2Model ----
\* A model of classics-ranking-bot (src/src/main.rs): the one-shot run that
\* resolves role names, pages through the members of every scanned role,
\* classifies each member by account-creation year and sets the member's role.
\* Every platform call (and every cooldown sleep) is one step of the run.
EXTENDS Integers, Sequences, FiniteSets, TLC

\* ---------------------------------------------------------------------------
\* Program constants (main.rs:9-16)
\* ---------------------------------------------------------------------------
TOO_MANY_REQUESTS_COOLDOWN == 60

ACCOUNT_AGE_RETRIES == 5

SET_GROUP_MEMBER_ROLE_RETRIES == 5

USER_ALREADY_HAS_ROLE_ROBLOX_ERROR_CODE == 26

\* ---------------------------------------------------------------------------
\* Bounds of the model
\* ---------------------------------------------------------------------------
\* Longest member page the platform returns.
MaxPageLen == 2

\* Member-listing calls per scanned role after which the platform ends the
\* enumeration (empty page or absent cursor).
MaxPages == 2

\* ---------------------------------------------------------------------------
\* Values
\* ---------------------------------------------------------------------------
\* Option<String>::None of the pagination cursor.
NoCursor == "None"

Cursors == {"c1", "c2"}

\* RoboatError kinds the platform calls can fail with.  "UnknownRobloxErrorCode"
\* carries a numeric code; the other kinds carry code 0 in the model.
ErrorResponses ==
    { [kind |-> "TooManyRequests", code |-> 0],
      [kind |-> "InvalidRoblosecurity", code |-> 0],
      [kind |-> "MalformedResponse", code |-> 0],
      [kind |-> "UnknownRobloxErrorCode", code |-> USER_ALREADY_HAS_ROLE_ROBLOX_ERROR_CODE],
      [kind |-> "UnknownRobloxErrorCode", code |-> 1] }

OkResponse == [kind |-> "Ok", code |-> 0]

\* created_at strings of the user-detail endpoint, as sequences of Unicode code
\* points (48..57 are the digits 0..9, 43 is "+", 45 is "-", 84 is "T"), in
\* this order:
\*   2006-02-27T
\*   2007-11-03T
\*   2015-06-19T
\*   2020-12-31T
\*   20a6-02-27T (a letter among the first four)
\*   200 (shorter than four bytes)
\*   +2006-02-27T (a leading sign)
\*   200, e acute (U+00E9, two bytes), -02-27T: byte 4 is inside a character
\*   fullwidth 2006 (U+FF12 U+FF10 U+FF10 U+FF16, three bytes each), -02-27T
\*   three e acute: the first four bytes are two characters
\*   U+1F600 (four bytes), 006-02-27T: the first four bytes are one character
CreatedAts ==
    { << 50, 48, 48, 54, 45, 48, 50, 45, 50, 55, 84 >>,
      << 50, 48, 48, 55, 45, 49, 49, 45, 48, 51, 84 >>,
      << 50, 48, 49, 53, 45, 48, 54, 45, 49, 57, 84 >>,
      << 50, 48, 50, 48, 45, 49, 50, 45, 51, 49, 84 >>,
      << 50, 48, 97, 54, 45, 48, 50, 45, 50, 55, 84 >>,
      << 50, 48, 48 >>,
      << 43, 50, 48, 48, 54, 45, 48, 50, 45, 50, 55, 84 >>,
      << 50, 48, 48, 233, 45, 48, 50, 45, 50, 55, 84 >>,
      << 65298, 65296, 65296, 65302, 45, 48, 50, 45, 50, 55, 84 >>,
      << 233, 233, 233 >>,
      << 128512, 48, 48, 54, 45, 48, 50, 45, 50, 55, 84 >> }

\* Role lists the platform returns for the group: {id, name} in platform order.
GroupRoleLists ==
    { << [id |-> 10, name |-> "Member"], [id |-> 20, name |-> "Vintage"],
         [id |-> 30, name |-> "Modern"], [id |-> 40, name |-> "Champion"] >>,
      << [id |-> 20, name |-> "Vintage"], [id |-> 10, name |-> "Member"],
         [id |-> 30, name |-> "Modern"] >>,
      << [id |-> 10, name |-> "Member"], [id |-> 20, name |-> "Vintage"] >> }

\* Config values (main.rs:19-32) the run is started with: the spec's example,
\* one with the year 2007 under two roles, and one that scans two mapped roles.
Configs ==
    { [ scanned_roles |-> <<"Member", "Vintage">>,
        role_year_pairs |-> ("Vintage" :> <<2006, 2007>>) @@ ("Modern" :> <<2020>>),
        wildcard_role |-> "Member" ],
      [ scanned_roles |-> <<"Member">>,
        role_year_pairs |-> ("Vintage" :> <<2006, 2007>>) @@ ("Modern" :> <<2007, 2020>>),
        wildcard_role |-> "Champion" ],
      [ scanned_roles |-> <<"Vintage", "Champion">>,
        role_year_pairs |-> ("Vintage" :> <<2006>>) @@ ("Champion" :> <<2020>>),
        wildcard_role |-> "Member" ] }

\* All orders in which a HashMap with key set S can be iterated.
KeyOrders(S) ==
    { s \in [1..Cardinality(S) -> S] : \A i, j \in 1..Cardinality(S) : s[i] = s[j] => i = j }

\* Error values of the run (main.rs:36-45) and the two non-error outcomes.
Running == [tag |-> "Running", arg |-> ""]

OkUnit == [tag |-> "Ok", arg |-> ""]

NonRecoverableRoboatError(kind) == [tag |-> "NonRecoverableRoboatError", arg |-> kind]

RoleNotFound(name) == [tag |-> "RoleNotFound", arg |-> name]

EndpointExceededRetryLimit(name) == [tag |-> "EndpointExceededRetryLimit", arg |-> name]

\* A panic of the process (Option::unwrap on None).
Panicked == [tag |-> "Panic", arg |-> ""]
\* The panic of year_created on a created_at it cannot take a year from.
YearPanicked(why) == [tag |-> "Panic", arg |-> why]

\* ---------------------------------------------------------------------------
\* Pure functions
\* ---------------------------------------------------------------------------
\* HashMap::insert on a map modelled as a function.
MapInsert(m, k, v) == [x \in (DOMAIN m) \cup {k} |-> IF x = k THEN v ELSE m[x]]

EmptyMap == [x \in {} |-> 0]

\* The inner loop of reverse_role_year_pairs: insert every year of one role.
RECURSIVE InsertYears(_, _, _, _)
InsertYears(m, role, years, i) ==
    IF i > Len(years) THEN m
    ELSE InsertYears(MapInsert(m, years[i], role), role, years, i + 1)

\* reverse_role_year_pairs: the roles are visited in the map's iteration order,
\* a later insert of the same year replaces the earlier one.
RECURSIVE ReverseFrom(_, _, _, _)
ReverseFrom(m, role_year_pairs, order, i) ==
    IF i > Len(order) THEN m
    ELSE ReverseFrom(InsertYears(m, order[i], role_year_pairs[order[i]], 1),
                     role_year_pairs, order, i + 1)

\* A variant of reverse_role_year_pairs whose inner loop starts one element
\* late, so that the first year of every role is left out of the index.
reverse_role_year_pairs_skip_first(role_year_pairs, order) ==
    LET RECURSIVE From(_, _)
        From(m, i) ==
            IF i > Len(order) THEN m
            ELSE From(InsertYears(m, order[i], role_year_pairs[order[i]], 2), i + 1)
    IN  From(EmptyMap, 1)

reverse_role_year_pairs(role_year_pairs, order) ==
    ReverseFrom(EmptyMap, role_year_pairs, order, 1)

\* group_roles.iter().find(|role| role.name == role_name): the index of the
\* first role of that name, 0 when there is none.
RECURSIVE FindRole(_, _, _)
FindRole(group_roles, role_name, i) ==
    IF i > Len(group_roles) THEN 0
    ELSE IF group_roles[i].name = role_name THEN i
    ELSE FindRole(group_roles, role_name, i + 1)

\* One of the resolution loops of generate_role_id_lookup over a list of names.
\* The state is [ok, lookup, missing]; the first unresolved name stops it.
RECURSIVE ResolveNames(_, _, _, _)
ResolveNames(st, group_roles, names, i) ==
    IF ~st.ok \/ i > Len(names) THEN st
    ELSE LET at == FindRole(group_roles, names[i], 1)
         IN  IF at = 0
             THEN [ok |-> FALSE, lookup |-> st.lookup, missing |-> names[i]]
             ELSE ResolveNames([st EXCEPT !.lookup = MapInsert(st.lookup, names[i], group_roles[at].id)],
                               group_roles, names, i + 1)

\* A variant of generate_role_id_lookup that does not fail on an unlisted
\* wildcard role: it leaves the wildcard out of the table.
generate_role_id_lookup_lenient_wildcard(group_roles, scanned_roles, key_order, wildcard_role) ==
    LET s0 == [ok |-> TRUE, lookup |-> EmptyMap, missing |-> ""]
        s1 == ResolveNames(s0, group_roles, scanned_roles, 1)
        s2 == ResolveNames(s1, group_roles, key_order, 1)
        s3 == ResolveNames(s2, group_roles, <<wildcard_role>>, 1)
    IN  IF s2.ok /\ ~s3.ok THEN s2 ELSE s3

\* A variant of generate_role_id_lookup without the loop over the keys of
\* role_year_pairs.
generate_role_id_lookup_without_pair_keys(group_roles, scanned_roles, key_order, wildcard_role) ==
    LET s0 == [ok |-> TRUE, lookup |-> EmptyMap, missing |-> ""]
        s1 == ResolveNames(s0, group_roles, scanned_roles, 1)
    IN  ResolveNames(s1, group_roles, <<wildcard_role>>, 1)

\* generate_role_id_lookup after the role list has arrived: scanned roles,
\* then the keys of role_year_pairs in iteration order, then the wildcard.
generate_role_id_lookup(group_roles, scanned_roles, key_order, wildcard_role) ==
    LET s0 == [ok |-> TRUE, lookup |-> EmptyMap, missing |-> ""]
        s1 == ResolveNames(s0, group_roles, scanned_roles, 1)
        s2 == ResolveNames(s1, group_roles, key_order, 1)
    IN  ResolveNames(s2, group_roles, <<wildcard_role>>, 1)

\* char::to_digit(10) of the character with code point c: the digits are the
\* code points 48 ("0") to 57 ("9"); 10 stands for "no digit".
DigitOf(c) == IF c >= 48 /\ c <= 57 THEN c - 48 ELSE 10

\* The two results of str::parse::<u64>: Ok(n) and Err(ParseIntError{kind}).
ParseOk(n) == [ok |-> TRUE, value |-> n, err |-> ""]
ParseErr(kind) == [ok |-> FALSE, value |-> 0, err |-> kind]

\* str::parse::<u64> of s, called as ParseDigits(s, 1, 0): the empty string is
\* Err(Empty), one leading "+" is dropped (a lone sign is Err(InvalidDigit)),
\* where "+" is code point 43 and "-" is 45,
\* then the digits are accumulated left to right and a character that is no
\* digit is Err(InvalidDigit). The strings parsed here have at most four
\* characters, so that Err(PosOverflow) cannot occur.
RECURSIVE ParseDigits(_, _, _)
ParseDigits(s, i, acc) ==
    IF Len(s) = 0 THEN ParseErr("Empty")
    ELSE IF i = 1 /\ s[1] \in {43, 45} /\ Len(s) = 1 THEN ParseErr("InvalidDigit")
    ELSE IF i = 1 /\ s[1] = 43 THEN ParseDigits(s, 2, acc)
    ELSE IF i > Len(s) THEN ParseOk(acc)
    ELSE IF DigitOf(s[i]) = 10 THEN ParseErr("InvalidDigit")
    ELSE ParseDigits(s, i + 1, acc * 10 + DigitOf(s[i]))

\* char::len_utf8 of the character with code point c: one byte below U+0080,
\* two below U+0800, three below U+10000 and four from there on.
Utf8Len(c) ==
    IF c < 128 THEN 1
    ELSE IF c < 2048 THEN 2
    ELSE IF c < 65536 THEN 3
    ELSE 4

\* The string slice s[0..end] over byte indices, called as
\* SliceTo(s, end, 0, 0) with i characters and `bytes` bytes passed: it panics
\* when end is beyond the string and when end falls inside a character, and
\* otherwise gives the characters that fill the first `end` bytes.
RECURSIVE SliceTo(_, _, _, _)
SliceTo(s, end, i, bytes) ==
    IF bytes = end THEN [ok |-> TRUE, chars |-> SubSeq(s, 1, i)]
    ELSE IF bytes > end \/ i = Len(s) THEN [ok |-> FALSE, chars |-> << >>]
    ELSE SliceTo(s, end, i + 1, bytes + Utf8Len(s[i + 1]))

\* user_details.created_at[0..4].parse().unwrap(): the slice panics on a
\* string shorter than four bytes and on one whose byte 4 is not a character
\* boundary, and unwrap panics on Err of the parse.
ParseYear(created_at) ==
    LET slice == SliceTo(created_at, 4, 0, 0)
        parsed == ParseDigits(slice.chars, 1, 0)
    IN  IF ~slice.ok
        THEN [ok |-> FALSE, value |-> 0, panic |-> "slice"]
        ELSE [ok |-> parsed.ok, value |-> parsed.value, panic |-> parsed.err]

\* A variant of CorrespondingRole that, for a year the index lacks, takes the
\* role of the nearest earlier configured year before falling back on the
\* wildcard role.
CorrespondingRole_nearest_year(yrp, wildcard_role, account_age) ==
    LET earlier == { y \in DOMAIN yrp : y <= account_age }
    IN  IF earlier = {} THEN wildcard_role
        ELSE yrp[CHOOSE y \in earlier : \A z \in earlier : z <= y]

\* The role chosen for a classified year (main.rs:96-124): the year index's
\* role when it has one, the wildcard role otherwise.
CorrespondingRole(yrp, wildcard_role, account_age) ==
    IF account_age \in DOMAIN yrp THEN yrp[account_age] ELSE wildcard_role

\* A variant of year_created_step that retries rate-limited calls only: any
\* other failure gives up at once.
year_created_step_retry_rate_limit_only(retries_remaining, resp) ==
    IF resp.kind = "Ok"
    THEN [outcome |-> "ok", retries |-> retries_remaining, sleep |-> FALSE]
    ELSE IF retries_remaining = 0 \/ resp.kind # "TooManyRequests"
    THEN [outcome |-> "exceeded", retries |-> retries_remaining, sleep |-> FALSE]
    ELSE [outcome |-> "retry", retries |-> retries_remaining - 1, sleep |-> TRUE]

\* A variant of year_created_step that skips the cooldown before the last retry.
year_created_step_no_cooldown_before_last(retries_remaining, resp) ==
    IF resp.kind = "Ok"
    THEN [outcome |-> "ok", retries |-> retries_remaining, sleep |-> FALSE]
    ELSE IF retries_remaining = 0
    THEN [outcome |-> "exceeded", retries |-> retries_remaining, sleep |-> FALSE]
    ELSE [outcome |-> "retry", retries |-> retries_remaining - 1,
          sleep |-> (resp.kind = "TooManyRequests" /\ retries_remaining > 1)]

\* A variant of year_created_step that never gives up: with no retries left
\* it goes on retrying.
year_created_step_never_gives_up(retries_remaining, resp) ==
    IF resp.kind = "Ok"
    THEN [outcome |-> "ok", retries |-> retries_remaining, sleep |-> FALSE]
    ELSE [outcome |-> "retry",
          retries |-> IF retries_remaining = 0 THEN 0 ELSE retries_remaining - 1,
          sleep |-> (resp.kind = "TooManyRequests")]

\* One pass through the loop body of year_created (main.rs:216-232) for one
\* response of the user-detail endpoint.  outcome: "ok" returns the year,
\* "exceeded" returns EndpointExceededRetryLimit, "retry" loops (after a
\* cooldown sleep when sleep is TRUE).
year_created_step(retries_remaining, resp) ==
    IF resp.kind = "Ok"
    THEN [outcome |-> "ok", retries |-> retries_remaining, sleep |-> FALSE]
    ELSE IF retries_remaining = 0
    THEN [outcome |-> "exceeded", retries |-> retries_remaining, sleep |-> FALSE]
    ELSE [outcome |-> "retry", retries |-> retries_remaining - 1,
          sleep |-> (resp.kind = "TooManyRequests")]

\* A variant of set_group_member_role_step that sleeps the cooldown before
\* every retry, whatever the error was.
set_group_member_role_step_always_cooldown(retries_remaining, resp) ==
    IF resp.kind = "Ok"
    THEN [outcome |-> "ok", retries |-> retries_remaining, sleep |-> FALSE]
    ELSE IF retries_remaining = 0
    THEN [outcome |-> "exceeded", retries |-> retries_remaining, sleep |-> FALSE]
    ELSE IF resp.kind = "InvalidRoblosecurity"
    THEN [outcome |-> "fatal", retries |-> retries_remaining - 1, sleep |-> FALSE]
    ELSE IF resp.kind = "UnknownRobloxErrorCode"
            /\ resp.code = USER_ALREADY_HAS_ROLE_ROBLOX_ERROR_CODE
    THEN [outcome |-> "ok", retries |-> retries_remaining - 1, sleep |-> FALSE]
    ELSE [outcome |-> "retry", retries |-> retries_remaining - 1, sleep |-> TRUE]

\* One pass through the loop body of set_group_member_role (main.rs:243-274).
\* outcome "fatal" returns NonRecoverableRoboatError(e).
set_group_member_role_step(retries_remaining, resp) ==
    IF resp.kind = "Ok"
    THEN [outcome |-> "ok", retries |-> retries_remaining, sleep |-> FALSE]
    ELSE IF retries_remaining = 0
    THEN [outcome |-> "exceeded", retries |-> retries_remaining, sleep |-> FALSE]
    ELSE IF resp.kind = "InvalidRoblosecurity"
    THEN [outcome |-> "fatal", retries |-> retries_remaining - 1, sleep |-> FALSE]
    ELSE IF resp.kind = "TooManyRequests"
    THEN [outcome |-> "retry", retries |-> retries_remaining - 1, sleep |-> TRUE]
    ELSE IF resp.kind = "UnknownRobloxErrorCode"
            /\ resp.code = USER_ALREADY_HAS_ROLE_ROBLOX_ERROR_CODE
    THEN [outcome |-> "ok", retries |-> retries_remaining - 1, sleep |-> FALSE]
    ELSE [outcome |-> "retry", retries |-> retries_remaining - 1, sleep |-> FALSE]

\* What page_of_members does with an error of the listing endpoint
\* (main.rs:199-202): every error kind is wrapped and returned.
page_of_members_error(resp) == NonRecoverableRoboatError(resp.kind)

\* What generate_role_id_lookup does with an error of the role-listing
\* endpoint (main.rs:155-158).
group_roles_error(resp) == NonRecoverableRoboatError(resp.kind)

\* ---------------------------------------------------------------------------
\* State
\* ---------------------------------------------------------------------------
VARIABLES
    config,            \* the Config the run was started with
    key_order,         \* iteration order of the role_year_pairs HashMap
    year_role_pairs,   \* main.rs:60
    roles_listed,      \* the role-listing call has returned a role list
    group_roles,       \* the role list the platform returned
    role_id_lookup,    \* main.rs:62
    pc,                \* where main is suspended
    result,            \* what main returned, Running until it does
    scan_idx,          \* index of role_to_scan in config.scanned_roles
    role_to_scan_id,   \* main.rs:76
    next_cursor,       \* main.rs:80
    member_ids,        \* the page being processed
    member_idx,        \* index of member_id in member_ids
    account_age,       \* main.rs:94
    role,              \* the role name chosen for the member
    role_id,           \* the id passed to set_group_member_role
    retries_remaining, \* of the running year_created / set_group_member_role
    called,            \* endpoints called so far in the run
    last,              \* endpoint, arguments and response of the latest platform call
    op,                \* the retry operation that made the latest call: name, calls, sleeps, rate-limited responses
    sleeps_since,      \* cooldown sleeps since the latest response
    pages_fetched,     \* member-listing calls made for the current role
    last_page,         \* the latest member-listing call: role index, members and cursor returned
    done_ids,          \* user ids whose set-role succeeded since the latest member-listing call
    printed            \* progress lines written since the latest platform call

vars ==
    << config, key_order, year_role_pairs, roles_listed, group_roles, role_id_lookup,
       pc, result, scan_idx, role_to_scan_id, next_cursor, member_ids, member_idx,
       account_age, role, role_id, retries_remaining, called, last, op,
       sleeps_since, pages_fetched, last_page, done_ids, printed >>

NoCreatedAt == << >>

NoOp == [name |-> "", calls |-> 0, sleeps |-> 0, limited |-> 0]

\* No member-listing call has been made yet.
NoPage == [idx |-> 0, members |-> << >>, cursor |-> NoCursor]

Init ==
    /\ config \in Configs
    /\ key_order \in KeyOrders(DOMAIN config.role_year_pairs)
    /\ year_role_pairs = reverse_role_year_pairs(config.role_year_pairs, key_order)
    /\ roles_listed = FALSE
    /\ group_roles = << >>
    /\ role_id_lookup = EmptyMap
    /\ pc = "resolve"
    /\ result = Running
    /\ scan_idx = 0
    /\ role_to_scan_id = 0
    /\ next_cursor = NoCursor
    /\ member_ids = << >>
    /\ member_idx = 0
    /\ account_age = 0
    /\ role = ""
    /\ role_id = 0
    /\ retries_remaining = 0
    /\ called = {}
    /\ last = [ep |-> "", kind |-> "", code |-> 0, created_at |-> NoCreatedAt,
               user |-> 0, role_arg |-> 0, cursor |-> NoCursor]
    /\ op = NoOp
    /\ sleeps_since = 0
    /\ pages_fetched = 0
    /\ last_page = NoPage
    /\ done_ids = << >>
    /\ printed = << >>

\* The record of a platform call: its endpoint, its response, and the user id
\* and role id it was given (0 for an argument the endpoint does not take);
\* the cursor a member listing was given is filled in by PageOfMembers.
Response(ep, resp, created_at, user, role_arg) ==
    [ep |-> ep, kind |-> resp.kind, code |-> resp.code, created_at |-> created_at,
     user |-> user, role_arg |-> role_arg, cursor |-> NoCursor]

\* A variant of page_break that ends the enumeration on an empty page only
\* when the response carried no cursor.
page_break_unless_cursor(ids, new_cursor) == ids = << >> /\ new_cursor = NoCursor

\* `if member_ids.is_empty() { break; }` (main.rs:86-88): the test does not
\* look at the cursor the response carried.
page_break(ids, new_cursor) == ids = << >>

\* A variant of loop_break with the test inverted: it leaves the paging loop
\* while a cursor is present and goes round when it is absent.
loop_break_inverted(cursor) == cursor # NoCursor

\* `if next_cursor.is_none() { break; }` (main.rs:127-129).
loop_break(cursor) == cursor = NoCursor

\* A variant of initial_cursor as if next_cursor were declared outside the
\* loop over the scanned roles: a role starts with the cursor left behind.
initial_cursor_left_behind(previous) == previous

\* `let mut next_cursor = None;` (main.rs:80): every scanned role starts with
\* an absent cursor, whatever cursor the role before it ended with.
initial_cursor(previous) == NoCursor

\* A variant of member_at that walks the page from its end.
member_at_reversed(ids, i) == ids[Len(ids) + 1 - i]

\* `for member_id in member_ids` (main.rs:93): the i-th member visited.
member_at(ids, i) == ids[i]

\* A variant of has_next_member that stops one member early.
has_next_member_stops_early(ids, i) == i + 1 < Len(ids)

\* `for member_id in member_ids` (main.rs:93): a member follows the i-th.
has_next_member(ids, i) == i < Len(ids)

\* A variant of ProgressLine with the user id and the year in each other's place.
ProgressLine_swapped(role_name, member_id, age) ==
    [role |-> role_name, user |-> age, year |-> member_id]

\* The println! of a successful assignment (main.rs:105-108, 119-122).
ProgressLine(role_name, member_id, age) ==
    [role |-> role_name, user |-> member_id, year |-> age]

\* A variant of Return that records the outcome and lets main go on where it was.
Return_and_go_on(res) ==
    /\ pc' = pc
    /\ result' = res

\* main returns `res`.
Return(res) ==
    /\ pc' = "done"
    /\ result' = res

\* The locals of one pass of `for member_id in member_ids` go out of scope.
DropMember ==
    /\ account_age' = 0
    /\ role' = ""
    /\ role_id' = 0
    /\ retries_remaining' = 0

\* The locals of one pass of the paging loop go out of scope.
DropPage ==
    /\ member_ids' = << >>
    /\ member_idx' = 0
    /\ DropMember

\* The head of `for role_to_scan in config.scanned_roles` (main.rs:72-80) for
\* the i-th scanned role, with the lookup table `lookup`; past the last role
\* main returns Ok(()) (main.rs:133).
EnterRole(i, lookup) ==
    /\ scan_idx' = i
    /\ next_cursor' = initial_cursor(next_cursor)
    /\ pages_fetched' = 0
    /\ DropPage
    /\ IF i > Len(config.scanned_roles)
       THEN Return(OkUnit) /\ role_to_scan_id' = 0
       ELSE IF config.scanned_roles[i] \notin DOMAIN lookup
       THEN Return(RoleNotFound(config.scanned_roles[i])) /\ role_to_scan_id' = 0
       ELSE /\ pc' = "page"
            /\ result' = Running
            /\ role_to_scan_id' = lookup[config.scanned_roles[i]]

\* The start of year_created for the i-th member of the page (main.rs:93-94, 214).
EnterMember(i) ==
    /\ member_idx' = i
    /\ account_age' = 0
    /\ role' = ""
    /\ role_id' = 0
    /\ retries_remaining' = ACCOUNT_AGE_RETRIES
    /\ pc' = "classify"
    /\ result' = Running

\* The paging loop goes round (main.rs:82, 127-129): the next listing call.
EnterPage ==
    /\ DropPage
    /\ pc' = "page"
    /\ result' = Running

\* generate_role_id_lookup (main.rs:62-69, 148-191): the role-listing call and
\* the resolution of every configured name, then the head of the scan loop.
GenerateRoleIdLookup ==
    /\ pc = "resolve"
    /\ \E resp \in ErrorResponses \cup {OkResponse} :
       \E roles \in (IF resp.kind = "Ok" THEN GroupRoleLists ELSE {<< >>}) :
         /\ called' = called \cup {"group_roles"}
         /\ last' = Response("group_roles", resp, NoCreatedAt, 0, 0)
         /\ sleeps_since' = 0
         /\ printed' = << >>
         /\ IF resp.kind # "Ok"
            THEN /\ Return(group_roles_error(resp))
                 /\ UNCHANGED << roles_listed, group_roles, role_id_lookup, scan_idx,
                                 role_to_scan_id, next_cursor, pages_fetched, member_ids,
                                 member_idx, account_age, role, role_id, retries_remaining >>
            ELSE LET r == generate_role_id_lookup(roles, config.scanned_roles,
                                                  key_order, config.wildcard_role)
                 IN  /\ roles_listed' = TRUE
                     /\ group_roles' = roles
                     /\ IF ~r.ok
                        THEN /\ Return(RoleNotFound(r.missing))
                             /\ UNCHANGED << role_id_lookup, scan_idx, role_to_scan_id,
                                             next_cursor, pages_fetched, member_ids,
                                             member_idx, account_age, role, role_id,
                                             retries_remaining >>
                        ELSE /\ role_id_lookup' = r.lookup
                             /\ EnterRole(1, r.lookup)
    /\ UNCHANGED << config, key_order, year_role_pairs, op, last_page, done_ids >>

\* The page of n members: user ids n, n-1, .., 1 in platform order.
PageOf(n) == [i \in 1..n |-> n + 1 - i]

\* Member pages the platform returns, the empty page among them.
Pages == { PageOf(n) : n \in 0..MaxPageLen }

\* The retry operation `name` as it stands when it makes a call: the running
\* one, or a fresh one when the latest operation was another.
CurrentOp(name) == IF op.name = name THEN op ELSE [NoOp EXCEPT !.name = name]

\* The operation record after one more call that got `resp`.
Counted(cur, resp) ==
    [cur EXCEPT !.calls = @ + 1,
                !.limited = @ + (IF resp.kind = "TooManyRequests" THEN 1 ELSE 0)]

\* page_of_members (main.rs:83-90, 193-211): one member-listing call for the
\* role being scanned, then the empty-page break or the start of the page's
\* first member.
PageOfMembers ==
    /\ pc = "page"
    /\ \E resp \in ErrorResponses \cup {OkResponse} :
       \E members \in (IF resp.kind = "Ok" THEN Pages ELSE {<< >>}) :
       \E new_cursor \in (IF resp.kind = "Ok" THEN Cursors \cup {NoCursor} ELSE {NoCursor}) :
         /\ pages_fetched + 1 >= MaxPages => members = << >> \/ new_cursor = NoCursor
         /\ called' = called \cup {"group_role_members"}
         /\ last' = [Response("group_role_members", resp, NoCreatedAt, 0, role_to_scan_id)
                        EXCEPT !.cursor = next_cursor]
         /\ sleeps_since' = 0
         /\ op' = NoOp
         /\ last_page' = [idx |-> scan_idx, members |-> members, cursor |-> new_cursor]
         /\ done_ids' = << >>
         /\ printed' = << >>
         /\ IF resp.kind # "Ok"
            THEN /\ Return(page_of_members_error(resp))
                 /\ UNCHANGED << scan_idx, role_to_scan_id, next_cursor, member_ids,
                                 member_idx, account_age, role, role_id,
                                 retries_remaining, pages_fetched >>
            ELSE IF page_break(members, new_cursor)
            THEN EnterRole(scan_idx + 1, role_id_lookup)
            ELSE IF Len(members) > 0
            THEN /\ next_cursor' = new_cursor
                 /\ member_ids' = members
                 /\ pages_fetched' = pages_fetched + 1
                 /\ EnterMember(1)
                 /\ UNCHANGED << scan_idx, role_to_scan_id >>
            ELSE IF loop_break(new_cursor)
            THEN EnterRole(scan_idx + 1, role_id_lookup)
            ELSE /\ next_cursor' = new_cursor
                 /\ pages_fetched' = pages_fetched + 1
                 /\ EnterPage
                 /\ UNCHANGED << scan_idx, role_to_scan_id >>
    /\ UNCHANGED << config, key_order, year_role_pairs, roles_listed, group_roles,
                    role_id_lookup >>

\* One attempt of year_created (main.rs:94-100, 113-114, 216-232): the
\* user-detail call and what the loop does with its response; on success the
\* year is taken from created_at, which panics when the string has no four
\* leading characters that parse, and otherwise the role for the year is
\* chosen and looked up, and set_group_member_role starts.
UserDetails ==
    /\ pc = "classify"
    /\ \E resp \in ErrorResponses \cup {OkResponse} :
       \E created_at \in (IF resp.kind = "Ok" THEN CreatedAts ELSE {NoCreatedAt}) :
         LET st == year_created_step(retries_remaining, resp)
             year == ParseYear(created_at)
             chosen == CorrespondingRole(year_role_pairs, config.wildcard_role, year.value)
         IN  /\ called' = called \cup {"user_details"}
             /\ last' = Response("user_details", resp, created_at,
                                  member_at(member_ids, member_idx), 0)
             /\ sleeps_since' = 0
             /\ printed' = << >>
             /\ op' = Counted(CurrentOp("Account age"), resp)
             /\ CASE st.outcome = "ok" /\ ~year.ok ->
                       /\ Return(YearPanicked(year.panic))
                       /\ UNCHANGED << account_age, role, role_id, retries_remaining >>
                  [] st.outcome = "ok" /\ year.ok ->
                       /\ account_age' = year.value
                       /\ role' = chosen
                       /\ IF chosen \in DOMAIN role_id_lookup
                          THEN /\ role_id' = role_id_lookup[chosen]
                               /\ retries_remaining' = SET_GROUP_MEMBER_ROLE_RETRIES
                               /\ pc' = "assign"
                               /\ result' = Running
                          ELSE /\ Return(Panicked)
                               /\ UNCHANGED << role_id, retries_remaining >>
                  [] st.outcome = "exceeded" ->
                       /\ Return(EndpointExceededRetryLimit("Account age"))
                       /\ UNCHANGED << account_age, role, role_id, retries_remaining >>
                  [] OTHER ->
                       /\ retries_remaining' = st.retries
                       /\ pc' = IF st.sleep THEN "classify_cooldown" ELSE "classify"
                       /\ UNCHANGED << account_age, role, role_id, result >>
    /\ UNCHANGED << config, key_order, year_role_pairs, roles_listed, group_roles,
                    role_id_lookup, scan_idx, role_to_scan_id, next_cursor, member_ids,
                    member_idx, pages_fetched, last_page, done_ids >>

\* tokio::time::sleep(TOO_MANY_REQUESTS_COOLDOWN) (main.rs:228, 263): the
\* cooldown ends and the loop goes on to its next attempt.
Cooldown ==
    /\ pc \in {"classify_cooldown", "assign_cooldown"}
    /\ pc' = IF pc = "classify_cooldown" THEN "classify" ELSE "assign"
    /\ op' = [op EXCEPT !.sleeps = @ + 1]
    /\ sleeps_since' = sleeps_since + 1
    /\ UNCHANGED << config, key_order, year_role_pairs, roles_listed, group_roles,
                    role_id_lookup, result, scan_idx, role_to_scan_id, next_cursor,
                    member_ids, member_idx, account_age, role, role_id,
                    retries_remaining, called, last, pages_fetched, last_page,
                    done_ids, printed >>

\* One attempt of set_group_member_role (main.rs:102-129, 243-274): the
\* set-role call and what the loop does with its response; on success main
\* goes on to the next member, the next page, the next role or its end.
SetGroupMemberRole ==
    /\ pc = "assign"
    /\ \E resp \in ErrorResponses \cup {OkResponse} :
         LET st == set_group_member_role_step(retries_remaining, resp)
             member_id == member_at(member_ids, member_idx)
         IN  /\ called' = called \cup {"set_group_member_role"}
             /\ last' = Response("set_group_member_role", resp, NoCreatedAt,
                                  member_id, role_id)
             /\ sleeps_since' = 0
             /\ printed' = IF st.outcome = "ok"
                           THEN << ProgressLine(role, member_id, account_age) >>
                           ELSE << >>
             /\ done_ids' = IF st.outcome = "ok" THEN Append(done_ids, member_id)
                            ELSE done_ids
             /\ op' = Counted(CurrentOp("Set group member role"), resp)
             /\ CASE st.outcome = "ok" ->
                       IF has_next_member(member_ids, member_idx)
                       THEN /\ EnterMember(member_idx + 1)
                            /\ UNCHANGED << scan_idx, role_to_scan_id, next_cursor,
                                            pages_fetched, member_ids >>
                       ELSE IF loop_break(next_cursor)
                       THEN EnterRole(scan_idx + 1, role_id_lookup)
                       ELSE /\ EnterPage
                            /\ UNCHANGED << scan_idx, role_to_scan_id, next_cursor,
                                            pages_fetched >>
                  [] st.outcome = "fatal" ->
                       /\ Return(NonRecoverableRoboatError(resp.kind))
                       /\ UNCHANGED << scan_idx, role_to_scan_id, next_cursor, pages_fetched,
                                       member_ids, member_idx, account_age, role, role_id,
                                       retries_remaining >>
                  [] st.outcome = "exceeded" ->
                       /\ Return(EndpointExceededRetryLimit("Set group member role"))
                       /\ UNCHANGED << scan_idx, role_to_scan_id, next_cursor, pages_fetched,
                                       member_ids, member_idx, account_age, role, role_id,
                                       retries_remaining >>
                  [] OTHER ->
                       /\ retries_remaining' = st.retries
                       /\ pc' = IF st.sleep THEN "assign_cooldown" ELSE "assign"
                       /\ UNCHANGED << result, scan_idx, role_to_scan_id, next_cursor,
                                       pages_fetched, member_ids, member_idx, account_age,
                                       role, role_id >>
    /\ UNCHANGED << config, key_order, year_role_pairs, roles_listed, group_roles,
                    role_id_lookup, last_page >>

Next ==
    \/ GenerateRoleIdLookup
    \/ PageOfMembers
    \/ UserDetails
    \/ Cooldown
    \/ SetGroupMemberRole

Spec == Init /\ [][Next]_vars

\* The run under the assumption that every platform call and every cooldown
\* returns: main is never suspended for ever while it has a step to take.
FairSpec == Spec /\ WF_vars(Next)

\* ---------------------------------------------------------------------------
\* Vocabulary of the properties
\* ---------------------------------------------------------------------------
\* set_group_member_role is running: role_id is the id it passes to the call.
Assigning == pc \in {"assign", "assign_cooldown"}

\* The configured roles whose years list holds `year`.
RolesOfYear(year) ==
    { r \in DOMAIN config.role_year_pairs :
        \E i \in 1..Len(config.role_year_pairs[r]) : config.role_year_pairs[r][i] = year }

\* The names of the roles the platform listed.
ListedNames == { group_roles[i].name : i \in 1..Len(group_roles) }

\* The platform's id of the listed role `name`.
ResolvedId(name) ==
    (CHOOSE g \in { group_roles[i] : i \in 1..Len(group_roles) } : g.name = name).id

\* The role names the configuration refers to, and those the platform lacks.
ConfiguredNames ==
    { config.scanned_roles[i] : i \in 1..Len(config.scanned_roles) }
        \cup DOMAIN config.role_year_pairs \cup {config.wildcard_role}

AbsentNames == ConfiguredNames \ ListedNames

\* The latest platform call was made by one of the two retry loops.
LastOf(name) ==
    /\ op.name = name
    /\ last.ep = (IF name = "Account age" THEN "user_details" ELSE "set_group_member_role")

\* The created_at string starts with four digits (of one byte each).
BeginsWithYear(s) == Len(s) >= 4 /\ \A i \in 1..4 : DigitOf(s[i]) # 10

\* The year a created_at string starts with, digit by digit.
LeadingYear(s) ==
    1000 * DigitOf(s[1]) + 100 * DigitOf(s[2]) + 10 * DigitOf(s[3]) + DigitOf(s[4])

\* ---------------------------------------------------------------------------
\* Properties
\* ---------------------------------------------------------------------------
\* C1 as stated: for every configured (role, years) pair and a member whose
\* classified year is in years, the id passed to the set-role call is the
\* resolved id of that role, also when the year is listed under two roles.
C1_AsClaimed ==
    Assigning =>
        \A r \in RolesOfYear(account_age) : role_id = ResolvedId(r)

\* The place of the configured role r in the iteration order of role_year_pairs.
KeyIndex(r) == CHOOSE i \in 1..Len(key_order) : key_order[i] = r

\* C1 amended: the id passed to the set-role call of a member whose classified
\* year is configured is the resolved id of a role that lists the year: of the
\* only such role when there is one, of the one that comes last in the map's
\* iteration order when there are several.
C1_MappedRoleAssigned ==
    Assigning /\ RolesOfYear(account_age) # {} =>
        /\ \E r \in RolesOfYear(account_age) : role = r /\ role_id = ResolvedId(r)
        /\ \A r \in RolesOfYear(account_age) :
              /\ RolesOfYear(account_age) = {r} => role_id = ResolvedId(r)
              /\ KeyIndex(r) <= KeyIndex(role)

\* A set-role call has been made for a member whose year 2007 is listed
\* under two roles, and is being retried.
C1_Witness ==
    /\ pc = "assign"
    /\ LastOf("Set group member role")
    /\ account_age = 2007
    /\ Cardinality(RolesOfYear(2007)) = 2

\* C2: for a member whose classified year is in no years list, the id passed
\* to the set-role call is the resolved id of the wildcard role.
C2_WildcardAssigned ==
    Assigning /\ RolesOfYear(account_age) = {} =>
        role_id = ResolvedId(config.wildcard_role)

\* A set-role call has been made for a member created in 2015, a year no role lists.
C2_Witness ==
    /\ pc = "assign"
    /\ LastOf("Set group member role")
    /\ account_age = 2015
    /\ RolesOfYear(2015) = {}

\* C3: when the platform's role list lacks a configured name, the run has
\* ended with RoleNotFound of an absent name, and the role listing is the only
\* platform call made.
C3_RoleNotFoundBeforePaging ==
    roles_listed /\ AbsentNames # {} =>
        /\ pc = "done"
        /\ result.tag = "RoleNotFound"
        /\ result.arg \in AbsentNames
        /\ called = {"group_roles"}

\* The run ended with RoleNotFound of the wildcard role, the last name resolved.
C3_Witness ==
    /\ roles_listed
    /\ result = RoleNotFound(config.wildcard_role)
    /\ config.wildcard_role \in AbsentNames

\* C4: a user-detail call that succeeds after k < 5 failures of any kinds makes
\* year_created return the year its response starts with, and year_created
\* does not give up with EndpointExceededRetryLimit before 5 calls have failed.
\* The year of the response is the four digits created_at starts with.
C4_SucceedsAfterFewerThanFiveFailures ==
    /\ LastOf("Account age") /\ last.kind = "Ok" /\ op.calls - 1 < 5 =>
          /\ result.tag # "EndpointExceededRetryLimit"
          /\ BeginsWithYear(last.created_at) =>
                /\ pc = "assign"
                /\ result = Running
                /\ account_age = LeadingYear(last.created_at)
    /\ result = EndpointExceededRetryLimit("Account age") => op.calls > 5

\* The user-detail call succeeded at the fifth attempt, after two rate-limited
\* failures and two failures of other kinds.
C4_Witness ==
    /\ LastOf("Account age")
    /\ last.kind = "Ok"
    /\ op.calls = 5
    /\ op.limited = 2
    /\ account_age = 2006

\* C5 as stated: an operation makes at most 5 calls, and when its first 5
\* calls all fail with retryable errors it fails with EndpointExceededRetryLimit.
C5_AsClaimed ==
    /\ op.calls <= 5
    /\ \A name \in {"Account age", "Set group member role"} :
          /\ LastOf(name)
          /\ op.calls = 5
          /\ last.kind \in {"TooManyRequests", "MalformedResponse"}
          => result = EndpointExceededRetryLimit(name)

\* C6 as stated: whichever attempt of set_group_member_role receives error
\* code 26, the operation returns success and makes no further attempt.
C6_AsClaimed ==
    /\ LastOf("Set group member role")
    /\ last.kind = "UnknownRobloxErrorCode"
    /\ last.code = USER_ALREADY_HAS_ROLE_ROBLOX_ERROR_CODE
    => ~Assigning /\ result.tag \in {"Running", "Ok"}

\* C7 as stated: whichever attempt of set_group_member_role receives the
\* invalid-credential error, the run ends with NonRecoverableRoboatError of it,
\* without a cooldown.
C7_AsClaimed ==
    LastOf("Set group member role") /\ last.kind = "InvalidRoblosecurity" =>
        /\ pc = "done"
        /\ result = NonRecoverableRoboatError("InvalidRoblosecurity")
        /\ sleeps_since = 0

\* C8 as stated: once a platform call has returned the invalid-credential
\* error the run has ended in failure, so that it makes no further call.
C8_AsClaimed ==
    last.kind = "InvalidRoblosecurity" =>
        pc = "done" /\ result.tag \notin {"Running", "Ok"}

\* C9: when a retry loop is about to make its next attempt after a
\* rate-limited response, exactly one cooldown has passed since the response;
\* an operation that succeeded slept once per rate-limited response, so 4
\* rate-limited failures and a success at attempt 5 make 4 cooldowns, after
\* which year_created returns the year its response starts with.
C9_OneCooldownPerRateLimit ==
    /\ \/ pc = "classify" /\ LastOf("Account age")
       \/ pc = "assign" /\ LastOf("Set group member role")
       => (last.kind = "TooManyRequests" => sleeps_since = 1)
    /\ pc \in {"classify_cooldown", "assign_cooldown"} =>
          last.kind = "TooManyRequests" /\ sleeps_since = 0
    /\ (LastOf("Account age") \/ LastOf("Set group member role")) /\ last.kind = "Ok" =>
          op.sleeps = op.limited
    /\ LastOf("Account age") /\ last.kind = "Ok" /\ op.calls = 5 /\ op.limited = 4 =>
          /\ op.sleeps = 4
          /\ BeginsWithYear(last.created_at) =>
                pc = "assign" /\ account_age = LeadingYear(last.created_at)

\* year_created succeeded at attempt 5 after 4 rate-limited failures.
C9_Witness ==
    /\ LastOf("Account age")
    /\ last.kind = "Ok"
    /\ op.calls = 5
    /\ op.limited = 4
    /\ op.sleeps = 4
    /\ pc = "assign"
    /\ account_age = 2015

\* C10 as stated: a rate-limited response ends the run only through an
\* exhausted retry budget, whichever platform call received it.
C10_AsClaimed ==
    pc = "done" /\ last.kind = "TooManyRequests" =>
        result.tag = "EndpointExceededRetryLimit"

\* The latest platform call was a member listing that returned a page.
PageListed == last.ep = "group_role_members" /\ last.kind = "Ok"

\* A member of the current page is being classified or assigned.
InMember == pc \in {"classify", "classify_cooldown", "assign", "assign_cooldown"}

\* C11: a member-listing response with zero members ends the enumeration of
\* its role, whatever cursor it carries: the run is at the next scanned role
\* (or has returned Ok after the last one) with an absent cursor, and no member
\* of that response is classified, assigned or reported.
C11_EmptyPageEndsRole ==
    PageListed /\ last_page.members = << >> =>
        /\ scan_idx = last_page.idx + 1
        /\ next_cursor = NoCursor
        /\ pages_fetched = 0
        /\ member_ids = << >>
        /\ done_ids = << >>
        /\ printed = << >>
        /\ IF scan_idx <= Len(config.scanned_roles)
           THEN pc = "page" /\ result = Running
           ELSE pc = "done" /\ result = OkUnit

\* An empty page that carried a cursor was returned for the first of two
\* scanned roles, and the run is about to list the second role.
C11_Witness ==
    /\ PageListed
    /\ last_page.members = << >>
    /\ last_page.cursor \in Cursors
    /\ last_page.idx = 1
    /\ pc = "page"
    /\ scan_idx = 2

\* C12: after a listing response with members and an absent cursor, the run
\* stays in that role while it classifies and assigns the page's members in
\* turn; it leaves the role (for the next role's listing, or returning Ok) only
\* when every member of the page has been assigned, and short of that it ends
\* only in an error of a retry loop or in the panic of year_created on a
\* created_at without a year.
C12_LastPageProcessedThenRoleEnds ==
    last_page.members # << >> /\ last_page.cursor = NoCursor =>
        /\ InMember =>
              /\ scan_idx = last_page.idx
              /\ member_ids = last_page.members
              /\ done_ids = SubSeq(last_page.members, 1, member_idx - 1)
        /\ pc = "page" \/ result = OkUnit =>
              /\ scan_idx = last_page.idx + 1
              /\ done_ids = last_page.members
        /\ pc = "done" /\ done_ids # last_page.members =>
              \/ result.tag \in {"EndpointExceededRetryLimit", "NonRecoverableRoboatError"}
              \/ /\ result \in {YearPanicked("slice"), YearPanicked("InvalidDigit")}
                 /\ last.ep = "user_details"
                 /\ ~BeginsWithYear(last.created_at)

\* Both members of a page that carried no cursor have been assigned, and the
\* run is about to list the next scanned role.
C12_Witness ==
    /\ last_page.members = PageOf(2)
    /\ last_page.cursor = NoCursor
    /\ done_ids = PageOf(2)
    /\ pc = "page"
    /\ scan_idx = last_page.idx + 1

\* main is suspended in a platform call (not in a cooldown, not returned).
AtCall == pc \in {"resolve", "page", "classify", "assign"}

\* The member of the latest page that is next in list order.
NextInPage == last_page.members[Len(done_ids) + 1]

\* The order a member-listing call keeps: it is for the role after the one
\* listed before when that role's enumeration has ended, and for the same role
\* when the page before carried a cursor and all its members are assigned.
ListingInOrder ==
    /\ "group_roles" \in called
    /\ last_page'.idx \in 1..Len(config.scanned_roles)
    /\ last'.role_arg = ResolvedId(config.scanned_roles[last_page'.idx])
    /\ done_ids = last_page.members
    /\ IF last_page.members # << >> /\ last_page.cursor # NoCursor
       THEN last_page'.idx = last_page.idx
       ELSE last_page'.idx = last_page.idx + 1

\* The order a user-detail call keeps: it is for the next member of the page
\* in list order, and follows the page's listing, a failed user-detail call
\* for the same member, or the successful set-role call of the member before.
UserDetailInOrder ==
    /\ Len(done_ids) < Len(last_page.members)
    /\ last'.user = NextInPage
    /\ \/ PageListed /\ done_ids = << >>
       \/ last.ep = "user_details" /\ last.kind # "Ok" /\ last.user = NextInPage
       \/ /\ last.ep = "set_group_member_role"
          /\ done_ids # << >>
          /\ last.user = done_ids[Len(done_ids)]

\* The order a set-role call keeps: it is for the member just classified, and
\* follows that member's successful user-detail call or failed set-role call.
SetRoleInOrder ==
    /\ Len(done_ids) < Len(last_page.members)
    /\ last'.user = NextInPage
    /\ \/ last.ep = "user_details" /\ last.kind = "Ok" /\ last.user = NextInPage
       \/ last.ep = "set_group_member_role" /\ last.user = NextInPage

\* C13: platform calls come in a fixed order: the role listing first, scanned
\* roles in config order, a role's pages one after the other, the members of a
\* page in list order, and for each member the user-detail attempts and then
\* the set-role attempts before any call for the next member or page.
C13_CallsInOrder ==
    [][ AtCall =>
          CASE last'.ep = "group_roles" -> called = {}
            [] last'.ep = "group_role_members" -> ListingInOrder
            [] last'.ep = "user_details" -> UserDetailInOrder
            [] last'.ep = "set_group_member_role" -> SetRoleInOrder
            [] OTHER -> FALSE ]_vars

\* In the second scanned role, the first member of a two-member page has been
\* assigned and the second has just been classified.
C13_Witness ==
    /\ pc = "assign"
    /\ scan_idx = 2
    /\ last_page.members = PageOf(2)
    /\ done_ids = << 2 >>
    /\ last.ep = "user_details"
    /\ last.user = 1

\* One of role resolution, member listing, classification or assignment has
\* just returned an error.
StepFailed ==
    \/ last.ep \in {"group_roles", "group_role_members"} /\ last.kind # "Ok"
    \/ roles_listed /\ AbsentNames # {}
    \/ LastOf("Account age") /\ op.calls > ACCOUNT_AGE_RETRIES /\ last.kind # "Ok"
    \/ /\ LastOf("Set group member role")
       /\ \/ op.calls > SET_GROUP_MEMBER_ROLE_RETRIES /\ last.kind # "Ok"
          \/ last.kind = "InvalidRoblosecurity"

\* C14: there is no per-member error isolation: when a step has returned an
\* error the run has ended in failure without a progress line, and once the
\* run has ended nothing more happens: no call, no line, no later member.
C14_FirstErrorEndsRun ==
    [][ /\ result = Running
        /\ StepFailed' =>
              /\ pc' = "done"
              /\ result'.tag \in {"NonRecoverableRoboatError", "RoleNotFound",
                                  "EndpointExceededRetryLimit"}
              /\ printed' = << >> ]_vars

\* Classification of the first member of a two-member page of the first of
\* two scanned roles has exhausted its retries: the run ended there.
C14_Witness ==
    /\ pc = "done"
    /\ result = EndpointExceededRetryLimit("Account age")
    /\ Len(member_ids) = 2
    /\ member_idx = 1
    /\ scan_idx = 1
    /\ Len(config.scanned_roles) = 2

\* The step is a return of set_group_member_role with success.
AssignmentSucceeds ==
    /\ pc = "assign"
    /\ pc' \notin {"assign", "assign_cooldown"}
    /\ result' \in {Running, OkUnit}

\* C15: a step writes a progress line exactly when set_group_member_role
\* returns success in it; it writes one line, which carries the name of the
\* role whose id was passed, the user id passed and the classified year.
C15_OneLinePerAssignment ==
    [][ /\ AssignmentSucceeds =>
              /\ Len(printed') = 1
              /\ printed'[1].role \in ListedNames
              /\ ResolvedId(printed'[1].role) = last'.role_arg
              /\ printed'[1].user = last'.user
              /\ printed'[1].year = account_age
        /\ ~AssignmentSucceeds => (IF AtCall THEN printed' = << >> ELSE printed' = printed)
      ]_vars

\* The wildcard role Member has been assigned to user 2, created in 2015.
C15_Witness ==
    /\ printed = << [role |-> "Member", user |-> 2, year |-> 2015] >>
    /\ last.ep = "set_group_member_role"
    /\ last.kind = "Ok"

\* C16: a cooldown happens only directly after a rate-limited response: after
\* a failure of another kind, and after a success, the run is not in a
\* cooldown and none has passed since the response.
C16_CooldownOnlyAfterRateLimit ==
    /\ pc \in {"classify_cooldown", "assign_cooldown"} =>
          last.kind = "TooManyRequests" /\ sleeps_since = 0
    /\ last.kind # "TooManyRequests" => sleeps_since = 0
    /\ sleeps_since <= 1
    /\ op.sleeps <= op.limited

\* set_group_member_role is about to make its fourth attempt after three
\* failures that were not rate limits, without any cooldown.
C16_Witness ==
    /\ pc = "assign"
    /\ LastOf("Set group member role")
    /\ last.kind = "MalformedResponse"
    /\ op.calls = 3
    /\ op.limited = 0
    /\ op.sleeps = 0
    /\ sleeps_since = 0

\* C17: the first member-listing call for a scanned role passes an absent
\* cursor, and every later one for the role passes the cursor the listing
\* response before it returned; no cursor passes from one role to another.
C17_CursorPassedOn ==
    [][ pc = "page" =>
          /\ last_page'.idx = scan_idx
          /\ last'.ep = "group_role_members"
          /\ last'.cursor = IF last_page.idx = scan_idx THEN last_page.cursor
                            ELSE NoCursor ]_vars

\* The second listing call for the second scanned role has passed the cursor
\* c2 that the first response for that role returned.
C17_Witness ==
    /\ last.ep = "group_role_members"
    /\ last_page.idx = 2
    /\ last.cursor = "c2"
    /\ pages_fetched = 2

\* The role names the year index maps years to.
IndexedRoles == { year_role_pairs[y] : y \in DOMAIN year_role_pairs }

\* C18: once role resolution has succeeded the lookup table holds every
\* scanned role, every role of the year index and the wildcard role, so that
\* RoleNotFound comes from resolution alone and no unwrap on a lookup panics.
C18_LookupsNeverMiss ==
    /\ role_id_lookup # EmptyMap =>
          /\ ConfiguredNames \cup IndexedRoles \subseteq DOMAIN role_id_lookup
          /\ result.tag # "RoleNotFound"
          /\ Assigning => role \in DOMAIN role_id_lookup /\ role_id = role_id_lookup[role]
          /\ pc # "resolve" /\ scan_idx <= Len(config.scanned_roles) =>
                role_to_scan_id = role_id_lookup[config.scanned_roles[scan_idx]]
    /\ result # Panicked

\* The wildcard role, which is neither scanned nor a key of role_year_pairs,
\* has been looked up for a member and its id is being assigned.
C18_Witness ==
    /\ pc = "assign"
    /\ role = config.wildcard_role
    /\ role \notin DOMAIN config.role_year_pairs
    /\ \A i \in 1..Len(config.scanned_roles) : config.scanned_roles[i] # role
    /\ role_id = 40

\* The role a member classified with `year` is to get.
ExpectedRoles(year) ==
    IF RolesOfYear(year) = {} THEN {config.wildcard_role} ELSE RolesOfYear(year)

\* C19: the run leaves a page, and ends with Ok, only when a set-role call has
\* ended in success for every member of the page, in a step that passed the
\* member's user id and the id of the role for the member's classified year;
\* this holds for pages that carried a cursor too.
C19_NoMemberSkipped ==
    [][ /\ pc' = "page" \/ result' = OkUnit => done_ids' = last_page'.members
        /\ InMember /\ done_ids' # done_ids =>
              /\ done_ids' = Append(done_ids, NextInPage)
              /\ last'.ep = "set_group_member_role"
              /\ last'.user = NextInPage
              /\ \E r \in ExpectedRoles(account_age) : last'.role_arg = ResolvedId(r)
              /\ \/ last'.kind = "Ok"
                 \/ last'.kind = "UnknownRobloxErrorCode"
                    /\ last'.code = USER_ALREADY_HAS_ROLE_ROBLOX_ERROR_CODE ]_vars

\* The run ended with Ok after both members of the last page were assigned,
\* the second one through an already-has-role response.
C19_Witness ==
    /\ result = OkUnit
    /\ last_page.members = PageOf(2)
    /\ done_ids = PageOf(2)
    /\ last.kind = "UnknownRobloxErrorCode"

\* A retry loop has gone round: the call failed and another attempt follows.
RetryStep ==
    \/ pc = "classify" /\ pc' \in {"classify", "classify_cooldown"}
    \/ pc = "assign" /\ pc' \in {"assign", "assign_cooldown"}

\* C20: when every platform call and cooldown returns and the platform ends
\* every role's enumeration, the run terminates whatever the responses are:
\* each pass of a retry loop uses up one of the retries that remain.
C20_RunTerminates ==
    /\ <>(pc = "done" /\ result # Running)
    /\ [][ RetryStep => retries_remaining' < retries_remaining /\ retries_remaining' >= 0 ]_vars

\* set_group_member_role ended the run after six rate-limited calls and five
\* cooldowns.
C20_Witness ==
    /\ pc = "done"
    /\ result = EndpointExceededRetryLimit("Set group member role")
    /\ op.limited = 6
    /\ op.sleeps = 5

====
